---- MODULE Spec2Model ----
(***************************************************************************)
(* Verification model of                                                   *)
(*   core/src/toga/widgets/imageview.py   (rehint_imageview, ImageView)    *)
(*   examples/handlers/handlers/app.py    (HandlerApp handlers)            *)
(*                                                                         *)
(* Python floats are IEEE-754 binary64.  A float is modelled as            *)
(*   [s |-> sign (0 or 1), m |-> <<hi, mid, lo>>, e |-> exponent]          *)
(* standing for (-1)^s * M * 2^e where M = hi*2^36 + mid*2^18 + lo is      *)
(* either 0 or a 53-bit integer (2^52 <= M < 2^53).  Every operation       *)
(* rounds to nearest, ties to even, as the hardware does.                  *)
(***************************************************************************)
EXTENDS Integers, Sequences, FiniteSets, TLC

\* ------------------------------------------------------------------------
\* State
\* ------------------------------------------------------------------------
VARIABLES
    view,          \* the ImageView: [image |-> self._image,
                   \*   impl_image |-> the image handed to the backend,
                   \*   impl_enabled |-> the native widget's enabled state]
    view_style,    \* the view's style (width, height, flex)
    last_call,     \* the latest call of rehint_imageview: arguments, outcome
    prev_call,     \* the call before it when it had the same image and
                   \* style: its scale and outcome; else None
    enabled_read,  \* what the latest read of ImageView.enabled returned
    \* HandlerApp
    counter, label_1, label_2, function_label, generator_label, async_label,
    btn_generator_enabled, btn_async_enabled,
    gen_pc, gen_i, gen_yields,       \* the running do_generator, if any
    async_pc, async_i, async_yields  \* the running do_async, if any

view_vars == <<view, view_style, last_call, prev_call, enabled_read>>

app_vars == <<counter, label_1, label_2, function_label, generator_label,
              async_label, btn_generator_enabled, btn_async_enabled,
              gen_pc, gen_i, gen_yields, async_pc, async_i, async_yields>>

vars == <<view_vars, app_vars>>

\* ------------------------------------------------------------------------
\* Bounds of the model
\* ------------------------------------------------------------------------
MaxScale == 2
MaxCounter == 2

\* ------------------------------------------------------------------------
\* IEEE-754 binary64 arithmetic on 18-bit limbs
\* ------------------------------------------------------------------------
LimbBits == 18
LimbBase == 262144
MantBits == 53

Pow2Table == <<1, 2, 4, 8, 16, 32, 64, 128, 256, 512, 1024, 2048, 4096, 8192,
               16384, 32768, 65536, 131072, 262144>>

\* 2^j for 0 <= j <= 18
Pow2(j) == Pow2Table[j + 1]

\* Number of bits of n, 0 <= n < 2^18
BitLen(n) == Cardinality({j \in 0..(LimbBits - 1) : Pow2(j) <= n})

BigZero == <<0, 0, 0>>

BigIsZero(x) == x[1] = 0 /\ x[2] = 0 /\ x[3] = 0

BigGeq(x, y) ==
    IF x[1] # y[1] THEN x[1] > y[1]
    ELSE IF x[2] # y[2] THEN x[2] > y[2]
    ELSE x[3] >= y[3]

\* x - y for x >= y
BigSub(x, y) ==
    LET b3 == IF x[3] < y[3] THEN 1 ELSE 0
        l3 == x[3] - y[3] + b3 * LimbBase
        b2 == IF x[2] - b3 < y[2] THEN 1 ELSE 0
        l2 == x[2] - b3 - y[2] + b2 * LimbBase
    IN  <<x[1] - b2 - y[1], l2, l3>>

\* 2*x + bit
BigShl1(x, bit) ==
    LET l3 == 2 * x[3] + bit
        l2 == 2 * x[2] + (l3 \div LimbBase)
    IN  <<2 * x[1] + (l2 \div LimbBase), l2 % LimbBase, l3 % LimbBase>>

BigOdd(x) == x[3] % 2 = 1

BigInc(x) ==
    LET l3 == x[3] + 1
        l2 == x[2] + (l3 \div LimbBase)
    IN  <<x[1] + (l2 \div LimbBase), l2 % LimbBase, l3 % LimbBase>>

\* Limb i (1 = most significant) of a limb sequence, 0 outside it
LimbAt(x, i) == IF i >= 1 /\ i <= Len(x) THEN x[i] ELSE 0

\* x * 2^k for three limbs (bits shifted beyond the top limb stay in it)
BigShl(x, k) ==
    LET q  == k \div LimbBits
        j  == k % LimbBits
        lo(i) == (LimbAt(x, i + q) % Pow2(LimbBits - j)) * Pow2(j)
        hi(i) == LimbAt(x, i + q + 1) \div Pow2(LimbBits - j)
    IN  <<(LimbAt(x, 1 + q) * Pow2(j)) + hi(1), lo(2) + hi(2), lo(3) + hi(3)>>

\* x \div 2^k for a limb sequence
BigShr(x, k) ==
    LET q  == k \div LimbBits
        j  == k % LimbBits
        limb(i) == (LimbAt(x, i - q) \div Pow2(j))
                   + (LimbAt(x, i - q - 1) % Pow2(j)) * Pow2(LimbBits - j)
    IN  [i \in 1..Len(x) |-> limb(i)]

\* 2^52 as a mantissa: the smallest normalised one
MantMin == <<65536, 0, 0>>

FloatZero(s) == [s |-> s, m |-> BigZero, e |-> 0]

FloatIsZero(x) == BigIsZero(x.m)

\* Round a 53-bit mantissa to nearest-even given the round bit and the
\* sticky bit; a carry out of the mantissa renormalises to 2^52.
RoundNearestEven(s, m, e, rb, sticky) ==
    IF rb = 1 /\ (sticky \/ BigOdd(m))
    THEN IF BigInc(m)[1] >= Pow2(MantBits - 2 * LimbBits)
         THEN [s |-> s, m |-> MantMin, e |-> e + 1]
         ELSE [s |-> s, m |-> BigInc(m), e |-> e]
    ELSE [s |-> s, m |-> m, e |-> e]

\* One step of restoring long division: st.r < 2 * st.d; the next quotient
\* bit is appended to st.q and the doubled remainder kept.
DivStep(st) ==
    LET bit == IF BigGeq(st.r, st.d) THEN 1 ELSE 0
        r1  == IF BigGeq(st.r, st.d) THEN BigSub(st.r, st.d) ELSE st.r
    IN  [r |-> BigShl1(r1, 0), d |-> st.d, q |-> BigShl1(st.q, bit)]

DivStep2(st)  == CHOOSE t \in {DivStep(a) : a \in {DivStep(st)}} : TRUE
DivStep4(st)  == CHOOSE t \in {DivStep2(a) : a \in {DivStep2(st)}} : TRUE
DivStep8(st)  == CHOOSE t \in {DivStep4(a) : a \in {DivStep4(st)}} : TRUE
DivStep16(st) == CHOOSE t \in {DivStep8(a) : a \in {DivStep8(st)}} : TRUE
DivStep32(st) == CHOOSE t \in {DivStep16(a) : a \in {DivStep16(st)}} : TRUE
DivStep48(st) == CHOOSE t \in {DivStep32(a) : a \in {DivStep16(st)}} : TRUE
DivStep52(st) == CHOOSE t \in {DivStep48(a) : a \in {DivStep4(st)}} : TRUE
\* MantBits quotient bits
DivStep53(st) == CHOOSE t \in {DivStep52(a) : a \in {DivStep(st)}} : TRUE

\* n / d for big n, d > 0 with d <= n < 2d, scaled by 2^sh: 53 quotient
\* bits, then the round bit and the sticky bit from the remainder.
DivNormalised(s, n, d, sh) ==
    CHOOSE f \in
      {RoundNearestEven(s, t.q, sh - (MantBits - 1),
                        IF BigGeq(t.r, t.d) THEN 1 ELSE 0,
                        IF BigGeq(t.r, t.d) THEN ~BigIsZero(BigSub(t.r, t.d))
                        ELSE ~BigIsZero(t.r)) :
         t \in {DivStep53(a) : a \in {[r |-> n, d |-> d, q |-> BigZero]}}} : TRUE

Abs(n) == IF n < 0 THEN -n ELSE n

SignOf(n) == IF n < 0 THEN 1 ELSE 0

\* float(n) for an int n (exact; |n| < 2^18)
int_to_float(n) ==
    IF n = 0 THEN FloatZero(0)
    ELSE [s |-> SignOf(n),
          m |-> BigShl(<<0, 0, Abs(n)>>, MantBits - BitLen(Abs(n))),
          e |-> BitLen(Abs(n)) - MantBits]

FloatQuotient(x, y) ==
    IF FloatIsZero(x) THEN FloatZero((x.s + y.s) % 2)
    ELSE IF BigGeq(x.m, y.m)
         THEN DivNormalised((x.s + y.s) % 2, x.m, y.m, x.e - y.e)
         ELSE DivNormalised((x.s + y.s) % 2, BigShl1(x.m, 0), y.m, x.e - y.e - 1)

\* x / y for floats x, y with y # 0  (float.__truediv__)
float_truediv(x, y) ==
    CHOOSE f \in {FloatQuotient(xv, yv) : xv \in {x}, yv \in {y}} : TRUE

\* a / b for ints a, b with b # 0  (int.__truediv__, correctly rounded)
int_truediv(a, b) == float_truediv(int_to_float(a), int_to_float(b))

\* n * m as four limbs, for 0 <= n < 2^12
MulLimbs(n, m) ==
    LET p3 == n * m[3]
        p2 == n * m[2] + (p3 \div LimbBase)
        p1 == n * m[1] + (p2 \div LimbBase)
    IN  <<p1 \div LimbBase, p1 % LimbBase, p2 % LimbBase, p3 % LimbBase>>

\* Narrow a four-limb product p (at least 53 bits) to 53 bits; the bits
\* shifted out give the round bit and the sticky bit.
NarrowProduct(s, p, e) ==
    LET bits == IF p[1] > 0 THEN 3 * LimbBits + BitLen(p[1])
                ELSE 2 * LimbBits + BitLen(p[2])
        t    == bits - MantBits
        m    == BigShr(p, t)
    IN  IF t = 0
        THEN [s |-> s, m |-> <<p[2], p[3], p[4]>>, e |-> e]
        ELSE RoundNearestEven(s, <<m[2], m[3], m[4]>>, e + t,
                              (p[4] \div Pow2(t - 1)) % 2,
                              p[4] % Pow2(t - 1) # 0)

FloatProduct(n, y) ==
    IF n = 0 \/ FloatIsZero(y) THEN FloatZero((SignOf(n) + y.s) % 2)
    ELSE CHOOSE f \in {NarrowProduct((SignOf(n) + y.s) % 2, p, y.e) :
                       p \in {MulLimbs(Abs(n), y.m)}} : TRUE

\* n * y for an int n and a float y  (float(n) * y)
int_mul_float(n, y) == CHOOSE f \in {FloatProduct(n, yv) : yv \in {y}} : TRUE

\* The integer part of a float of magnitude below 2^31
FloatTrunc(x) ==
    CHOOSE v \in {IF x.s = 1 THEN -(t[2] * LimbBase + t[3])
                  ELSE t[2] * LimbBase + t[3] :
                  t \in {IF x.e >= 0 THEN BigShl(x.m, x.e)
                         ELSE IF -x.e >= MantBits THEN BigZero
                         ELSE BigShr(x.m, -x.e)}} : TRUE

\* int(x): truncation toward zero
int_of_float(x) == CHOOSE v \in {FloatTrunc(xv) : xv \in {x}} : TRUE

\* ------------------------------------------------------------------------
\* Values
\* ------------------------------------------------------------------------
\* Python's None
None == [tag |-> "None"]

\* toga.style.pack.NONE: the "unset" marker of a style dimension (a string
\* in Python; here a value no length can take)
NONE == -1

\* A plain int hint and travertino's at_least(n)
Fixed(n) == [tag |-> "int", value |-> n]

at_least(n) == [tag |-> "at_least", value |-> n]

Image(w, h) == [tag |-> "Image", width |-> w, height |-> h]

\* The outcome of a call: the returned triple, or the exception raised
Return(width, height, aspect_ratio) ==
    [kind |-> "return", width |-> width, height |-> height,
     aspect_ratio |-> aspect_ratio]

Raise(exc) == [kind |-> "raise", exc |-> exc]

\* ------------------------------------------------------------------------
\* Input domains
\* ------------------------------------------------------------------------
Scales == 1..MaxScale

\* <<width, height>> of the images: the spec's 200x100 scenario, 9x7 (whose
\* ratio 9/7 is not a binary fraction), and the degenerate images
ImageDims == {<<200, 100>>, <<9, 7>>, <<9, 0>>, <<0, 7>>, <<9, -1>>}

Images == {Image(d[1], d[2]) : d \in ImageDims}

StyleWidths == {NONE, 9, 50}

StyleHeights == {NONE, 30}

Styles == [width : StyleWidths, height : StyleHeights, flex : BOOLEAN]

\* ------------------------------------------------------------------------
\* rehint_imageview
\* ------------------------------------------------------------------------
\* if image:
truthy(image) == image # None

\* Mutation: the explicit height is left flexible under flex
rehint_explicit_flex(image, style, scale) ==
    Return(Fixed(style.width * scale),
           IF style.flex THEN at_least(0) ELSE Fixed(style.height * scale),
           None)

\* Mutation: the aspect ratio is computed ahead of the style tests
rehint_explicit_hoisted(image, style, scale) ==
    IF image.height = 0 THEN Raise("ZeroDivisionError")
    ELSE Return(Fixed(style.width * scale), Fixed(style.height * scale), None)

\* Explicit width and height
rehint_explicit(image, style, scale) ==
    Return(Fixed(style.width * scale), Fixed(style.height * scale), None)

\* Mutation: under flex the explicit width becomes a lower bound as well
rehint_width_flex_pinned(image, style, scale) ==
    IF image.height = 0 THEN Raise("ZeroDivisionError")
    ELSE LET aspect_ratio == int_truediv(image.width, image.height)
         IN  IF FloatIsZero(aspect_ratio) THEN Raise("ZeroDivisionError")
             ELSE Return(
                 IF style.flex THEN at_least(0) ELSE Fixed(style.width * scale),
                 IF style.flex THEN at_least(0)
                 ELSE Fixed(int_of_float(float_truediv(
                          int_to_float(style.width * scale), aspect_ratio))),
                 aspect_ratio)

\* Mutation: the height is the width times the ratio instead of over it
rehint_width_times(image, style, scale) ==
    IF image.height = 0 THEN Raise("ZeroDivisionError")
    ELSE LET aspect_ratio == int_truediv(image.width, image.height)
         IN  IF FloatIsZero(aspect_ratio) THEN Raise("ZeroDivisionError")
             ELSE Return(
                 Fixed(style.width * scale),
                 IF style.flex THEN at_least(0)
                 ELSE Fixed(int_of_float(int_mul_float(
                          style.width * scale, aspect_ratio))),
                 aspect_ratio)

\* Explicit width, implicit height.  `/` raises ZeroDivisionError on a zero
\* divisor, both for int / int and for float / float.
rehint_width(image, style, scale) ==
    IF image.height = 0 THEN Raise("ZeroDivisionError")
    ELSE LET aspect_ratio == int_truediv(image.width, image.height)
         IN  IF FloatIsZero(aspect_ratio) THEN Raise("ZeroDivisionError")
             ELSE Return(
                 Fixed(style.width * scale),
                 IF style.flex THEN at_least(0)
                 ELSE Fixed(int_of_float(float_truediv(
                          int_to_float(style.width * scale), aspect_ratio))),
                 aspect_ratio)

\* Explicit height, implicit width
rehint_height(image, style, scale) ==
    IF image.height = 0 THEN Raise("ZeroDivisionError")
    ELSE LET aspect_ratio == int_truediv(image.width, image.height)
         IN  Return(
                 IF style.flex THEN at_least(0)
                 ELSE Fixed(int_of_float(int_mul_float(
                          style.height * scale, aspect_ratio))),
                 Fixed(style.height * scale),
                 aspect_ratio)

\* Mutation: under flex the lower bounds are the image's size
rehint_intrinsic_flex(image, style, scale) ==
    IF image.height = 0 THEN Raise("ZeroDivisionError")
    ELSE Return(
            IF style.flex THEN at_least(image.width * scale)
            ELSE Fixed(image.width * scale),
            IF style.flex THEN at_least(image.height * scale)
            ELSE Fixed(image.height * scale),
            int_truediv(image.width, image.height))

\* Mutation: the width is divided by the scale instead of multiplied
rehint_intrinsic_shrink(image, style, scale) ==
    IF image.height = 0 THEN Raise("ZeroDivisionError")
    ELSE Return(
            IF style.flex THEN at_least(0) ELSE Fixed(image.width \div scale),
            IF style.flex THEN at_least(0) ELSE Fixed(image.height * scale),
            int_truediv(image.width, image.height))

\* Neither set: the image's actual size
rehint_intrinsic(image, style, scale) ==
    IF image.height = 0 THEN Raise("ZeroDivisionError")
    ELSE Return(
            IF style.flex THEN at_least(0) ELSE Fixed(image.width * scale),
            IF style.flex THEN at_least(0) ELSE Fixed(image.height * scale),
            int_truediv(image.width, image.height))

\* Mutation: without an image the hints are flexible under flex
rehint_no_image_flex(image, style, scale) ==
    IF style.flex THEN Return(at_least(0), at_least(0), None)
    ELSE Return(Fixed(0), Fixed(0), None)

\* No image
rehint_no_image(image, style, scale) == Return(Fixed(0), Fixed(0), None)

rehint_imageview_body(image, style, scale) ==
    IF truthy(image)
    THEN IF style.width # NONE /\ style.height # NONE
         THEN rehint_explicit(image, style, scale)
         ELSE IF style.width # NONE
         THEN rehint_width(image, style, scale)
         ELSE IF style.height # NONE
         THEN rehint_height(image, style, scale)
         ELSE rehint_intrinsic(image, style, scale)
    ELSE rehint_no_image(image, style, scale)

\* The function is evaluated once per argument triple; a call looks its
\* outcome up.
RehintOutcome ==
    [a \in (Images \cup {None}) \X Styles \X Scales |->
        rehint_imageview_body(a[1], a[2], a[3])] @@ <<>>

\* Mutation: the outcome of an earlier call for the image and style is kept
\* and returned again
rehint_cached(image, style, scale) ==
    IF prev_call # None THEN prev_call.result
    ELSE RehintOutcome[<<image, style, scale>>]

rehint_imageview(image, style, scale) == RehintOutcome[<<image, style, scale>>]

\* ------------------------------------------------------------------------
\* ImageView
\* ------------------------------------------------------------------------
\* Image content that is neither an Image nor None (a path, bytes, ...):
\* toga.Image(content) loads it as an image of the content's size
Sources == {[tag |-> "source", width |-> d[1], height |-> d[2]] : d \in ImageDims}

Contents == Images \cup {None} \cup Sources

toga_Image(content) == Image(content.width, content.height)

\* ImageView.image setter, up to self._impl.set_image(self._image)
image_setter(self, content) ==
    LET stored == IF content.tag = "Image" THEN content
                  ELSE IF content = None THEN None
                  ELSE toga_Image(content)
    IN  [self EXCEPT !.image = stored, !.impl_image = stored]

\* ImageView.enabled getter
enabled_getter(self) == TRUE

\* Mutation: the setter of the base widget, which sets the native state
enabled_setter_stored(self, value) == [self EXCEPT !.impl_enabled = value]

\* ImageView.enabled setter: pass
enabled_setter(self, value) == self

\* ImageView.focus: pass
focus(self) == self

\* One call of rehint_imageview, as the log records it
CallRecord(image, style, scale) ==
    [image |-> image, style |-> style, scale |-> scale,
     result |-> rehint_imageview(image, style, scale)]

PrevRecord(image, style) ==
    IF last_call.image = image /\ last_call.style = style
    THEN [scale |-> last_call.scale, result |-> last_call.result]
    ELSE None

\* Widget.refresh(): the backend recomputes the hint from the view's
\* current image and style and the platform's scale factor
refresh(image, style, scale) ==
    /\ last_call' = CallRecord(image, style, scale)
    /\ prev_call' = PrevRecord(image, style)

PyBool(b) == IF b THEN "True" ELSE "False"

NewView == [image |-> None, impl_image |-> None, impl_enabled |-> TRUE]

AppInit ==
    /\ counter = 0
    /\ label_1 = <<"Ready.">>
    /\ label_2 = <<"Ready.">>
    /\ function_label = <<"Ready.">>
    /\ generator_label = <<"Ready.">>
    /\ async_label = <<"Ready.">>
    /\ btn_generator_enabled = TRUE
    /\ btn_async_enabled = TRUE
    /\ gen_pc = "idle" /\ gen_i = 0 /\ gen_yields = 0
    /\ async_pc = "idle" /\ async_i = 0 /\ async_yields = 0

\* ImageView(image=content, style=st): the image is primed to None, then
\* assigned through the setter, which refreshes the layout.
ViewInit ==
    \E content \in Contents, st \in Styles, sc \in Scales :
        /\ prev_call = None
        /\ view = image_setter(NewView, content)
        /\ view_style = st
        /\ last_call = CallRecord(image_setter(NewView, content).image, st, sc)
        /\ enabled_read = "unread"

Init == ViewInit /\ AppInit

\* view.image = content
SetImage ==
    \E content \in Contents, sc \in Scales :
        /\ view' = image_setter(view, content)
        /\ refresh(image_setter(view, content).image, view_style, sc)
        /\ UNCHANGED <<view_style, enabled_read, app_vars>>

\* The style of the view is changed
SetStyle ==
    \E st \in Styles :
        /\ view_style' = st
        /\ UNCHANGED <<view, last_call, prev_call, enabled_read, app_vars>>

\* A backend's rehint(): rehint_imageview(image, style, scale)
Rehint ==
    \E sc \in Scales :
        /\ refresh(view.image, view_style, sc)
        /\ UNCHANGED <<view, view_style, enabled_read, app_vars>>

\* view.enabled = value
SetEnabled ==
    \E value \in BOOLEAN :
        /\ view' = enabled_setter(view, value)
        /\ UNCHANGED <<view_style, last_call, prev_call, enabled_read, app_vars>>

\* view.focus()
Focus ==
    /\ view' = focus(view)
    /\ UNCHANGED <<view_style, last_call, prev_call, enabled_read, app_vars>>

\* view.enabled is read
ReadEnabled ==
    /\ enabled_read' = PyBool(enabled_getter(view))
    /\ UNCHANGED <<view, view_style, last_call, prev_call, app_vars>>

Next == SetImage \/ SetStyle \/ Rehint \/ SetEnabled \/ Focus \/ ReadEnabled

Spec == Init /\ [][Next]_vars

\* ------------------------------------------------------------------------
\* HandlerApp (examples/handlers)
\* ------------------------------------------------------------------------
\* range(1, 10): the loop runs for i = 1 .. RangeStop - 1
RangeStop == 10

\* random.randint(0, 100) yields any of 0..100; the ends are modelled
RandomNumbers == {0, 100}

Ready == <<"Ready.">>

\* f"{prefix}{number}"
Format(prefix, number) == <<prefix, number>>

\* Mutation: do_clear also re-enables the handler buttons
DoClearEnables ==
    /\ counter' = 0
    /\ label_1' = Ready
    /\ label_2' = Ready
    /\ function_label' = Ready
    /\ generator_label' = Ready
    /\ async_label' = Ready
    /\ btn_generator_enabled' = TRUE
    /\ btn_async_enabled' = TRUE
    /\ UNCHANGED <<gen_pc, gen_i, gen_yields, async_pc, async_i, async_yields,
                   view_vars>>

\* do_clear
DoClear ==
    /\ counter' = 0
    /\ label_1' = Ready
    /\ label_2' = Ready
    /\ function_label' = Ready
    /\ generator_label' = Ready
    /\ async_label' = Ready
    /\ UNCHANGED <<btn_generator_enabled, btn_async_enabled, gen_pc, gen_i,
                   gen_yields, async_pc, async_i, async_yields, view_vars>>

\* do_function
DoFunction ==
    \E number \in RandomNumbers :
        /\ function_label' = Format("Here's a random number: ", number)
        /\ UNCHANGED <<counter, label_1, label_2, generator_label, async_label,
                       btn_generator_enabled, btn_async_enabled, gen_pc, gen_i,
                       gen_yields, async_pc, async_i, async_yields, view_vars>>

\* The generator button is pressed (a disabled button takes no press): the
\* handler's generator is created and handed to the event loop.
PressGenerator ==
    /\ btn_generator_enabled
    /\ gen_pc = "idle"
    /\ gen_pc' = "scheduled"
    /\ UNCHANGED <<counter, label_1, label_2, function_label, generator_label,
                   async_label, btn_generator_enabled, btn_async_enabled, gen_i,
                   gen_yields, async_pc, async_i, async_yields, view_vars>>

\* do_generator up to its first yield
GenStart ==
    /\ gen_pc = "scheduled"
    /\ btn_generator_enabled' = FALSE
    /\ gen_i' = 1
    /\ generator_label' = Format("Iteration ", 1)
    /\ gen_yields' = 1
    /\ gen_pc' = "suspended"
    /\ UNCHANGED <<counter, label_1, label_2, function_label, async_label,
                   btn_async_enabled, async_pc, async_i, async_yields, view_vars>>

\* do_generator resumed after a yield: the next iteration, up to its yield
GenResume ==
    /\ gen_pc = "suspended"
    /\ gen_i + 1 < RangeStop
    /\ gen_i' = gen_i + 1
    /\ generator_label' = Format("Iteration ", gen_i + 1)
    /\ gen_yields' = gen_yields + 1
    /\ UNCHANGED <<counter, label_1, label_2, function_label, async_label,
                   btn_generator_enabled, btn_async_enabled, gen_pc,
                   async_pc, async_i, async_yields, view_vars>>

\* do_generator resumed after the last yield: the loop is over
GenFinish ==
    /\ gen_pc = "suspended"
    /\ ~(gen_i + 1 < RangeStop)
    /\ generator_label' = Ready
    /\ btn_generator_enabled' = TRUE
    /\ gen_pc' = "idle"
    /\ UNCHANGED <<counter, label_1, label_2, function_label, async_label,
                   btn_async_enabled, gen_i, gen_yields,
                   async_pc, async_i, async_yields, view_vars>>

\* The async button is pressed: the coroutine is handed to the event loop
PressAsync ==
    /\ btn_async_enabled
    /\ async_pc = "idle"
    /\ async_pc' = "scheduled"
    /\ UNCHANGED <<counter, label_1, label_2, function_label, generator_label,
                   async_label, btn_generator_enabled, btn_async_enabled, gen_pc,
                   gen_i, gen_yields, async_i, async_yields, view_vars>>

\* do_async up to its first await
AsyncStart ==
    /\ async_pc = "scheduled"
    /\ btn_async_enabled' = FALSE
    /\ async_i' = 1
    /\ async_label' = Format("Iteration ", 1)
    /\ async_yields' = 1
    /\ async_pc' = "suspended"
    /\ UNCHANGED <<counter, label_1, label_2, function_label, generator_label,
                   btn_generator_enabled, gen_pc, gen_i, gen_yields, view_vars>>

\* do_async resumed after asyncio.sleep(2): the next iteration
AsyncResume ==
    /\ async_pc = "suspended"
    /\ async_i + 1 < RangeStop
    /\ async_i' = async_i + 1
    /\ async_label' = Format("Iteration ", async_i + 1)
    /\ async_yields' = async_yields + 1
    /\ UNCHANGED <<counter, label_1, label_2, function_label, generator_label,
                   btn_generator_enabled, btn_async_enabled, async_pc,
                   gen_pc, gen_i, gen_yields, view_vars>>

\* do_async resumed after the last sleep
AsyncFinish ==
    /\ async_pc = "suspended"
    /\ ~(async_i + 1 < RangeStop)
    /\ async_label' = Ready
    /\ btn_async_enabled' = TRUE
    /\ async_pc' = "idle"
    /\ UNCHANGED <<counter, label_1, label_2, function_label, generator_label,
                   btn_generator_enabled, async_i, async_yields,
                   gen_pc, gen_i, gen_yields, view_vars>>

\* One iteration of on_running (the counter is capped at MaxCounter)
OnRunning ==
    /\ counter < MaxCounter
    /\ counter' = counter + 1
    /\ label_1' = Format("On Running: Iteration ", counter + 1)
    /\ UNCHANGED <<label_2, function_label, generator_label, async_label,
                   btn_generator_enabled, btn_async_enabled, gen_pc, gen_i,
                   gen_yields, async_pc, async_i, async_yields, view_vars>>

\* One iteration of do_background_task
BackgroundTask ==
    /\ counter < MaxCounter
    /\ counter' = counter + 1
    /\ label_2' = Format("Background: Iteration ", counter + 1)
    /\ UNCHANGED <<label_1, function_label, generator_label, async_label,
                   btn_generator_enabled, btn_async_enabled, gen_pc, gen_i,
                   gen_yields, async_pc, async_i, async_yields, view_vars>>

\* The app shows no ImageView
NoViewInit ==
    /\ prev_call = None
    /\ view = NewView
    /\ view_style = [width |-> NONE, height |-> NONE, flex |-> FALSE]
    /\ last_call = CallRecord(None, [width |-> NONE, height |-> NONE, flex |-> FALSE], 1)
    /\ enabled_read = "unread"

HandlerInit == NoViewInit /\ AppInit

HandlerNext ==
    \/ DoClear \/ DoFunction
    \/ PressGenerator \/ GenStart \/ GenResume \/ GenFinish
    \/ PressAsync \/ AsyncStart \/ AsyncResume \/ AsyncFinish
    \/ OnRunning \/ BackgroundTask

\* The event loop runs every ready callback and every expired timer: a
\* handler that is scheduled or sleeping is eventually resumed.
HandlerSpec ==
    /\ HandlerInit
    /\ [][HandlerNext]_vars
    /\ WF_vars(GenStart) /\ WF_vars(GenResume) /\ WF_vars(GenFinish)
    /\ WF_vars(AsyncStart) /\ WF_vars(AsyncResume) /\ WF_vars(AsyncFinish)

\* ------------------------------------------------------------------------
\* Properties
\* ------------------------------------------------------------------------
\* The arguments and the outcome of the latest call
Img == last_call.image

Sty == last_call.style

Res == last_call.result

Scaled(n) == n * last_call.scale

\* An image as the data model has it: positive width and height
ValidImage == Img # None /\ Img.width > 0 /\ Img.height > 0

BothSet == Sty.width # NONE /\ Sty.height # NONE

WidthOnly == Sty.width # NONE /\ Sty.height = NONE

HeightOnly == Sty.width = NONE /\ Sty.height # NONE

NeitherSet == Sty.width = NONE /\ Sty.height = NONE

\* The float 2.0
Two == [s |-> 0, m |-> MantMin, e |-> -51]

\* C1: a call with image = None returns exactly (0, 0, None), as fixed
\* integers, for every style (flex included) and every scale.
C1_NoImage ==
    Img = None => Res = Return(Fixed(0), Fixed(0), None)

C1_Witness ==
    /\ Img = None /\ Sty.flex /\ Sty.width # NONE /\ last_call.scale = 2
    /\ Res = Return(Fixed(0), Fixed(0), None)

\* C2: with both style.width and style.height set the aspect ratio returned
\* is None whatever the image; with an image present the result is exactly
\* (style.width * scale, style.height * scale, None) as fixed integers,
\* whatever the image's size and style.flex.
C2_Explicit ==
    BothSet =>
        /\ Res.kind = "return"
        /\ Res.aspect_ratio = None
        /\ Img # None =>
               Res = Return(Fixed(Scaled(Sty.width)), Fixed(Scaled(Sty.height)), None)

C2_Witness ==
    /\ Img = Image(200, 100)
    /\ Sty = [width |-> 50, height |-> 30, flex |-> TRUE]
    /\ last_call.scale = 2
    /\ Res = Return(Fixed(100), Fixed(60), None)

\* C3: with an image present and exactly one of style.width, style.height
\* set, the pinned axis is the fixed integer style_dim * scale whether or not
\* flex is set, the aspect ratio is image.width / image.height, and the other
\* axis is int(style.width * scale / ratio) (width pinned) or
\* int(style.height * scale * ratio) (height pinned) when flex is false and
\* at_least(0) when flex is true; 200x100 with width 50 at scale 1 gives
\* (50, 25, 2.0).
C3_OneSet ==
    /\ (ValidImage /\ WidthOnly) =>
          Res = Return(
                  Fixed(Scaled(Sty.width)),
                  IF Sty.flex THEN at_least(0)
                  ELSE Fixed(int_of_float(float_truediv(
                           int_to_float(Scaled(Sty.width)),
                           int_truediv(Img.width, Img.height)))),
                  int_truediv(Img.width, Img.height))
    /\ (ValidImage /\ HeightOnly) =>
          Res = Return(
                  IF Sty.flex THEN at_least(0)
                  ELSE Fixed(int_of_float(int_mul_float(
                           Scaled(Sty.height),
                           int_truediv(Img.width, Img.height)))),
                  Fixed(Scaled(Sty.height)),
                  int_truediv(Img.width, Img.height))
    /\ (Img = Image(200, 100) /\ last_call.scale = 1
        /\ Sty = [width |-> 50, height |-> NONE, flex |-> FALSE]) =>
          Res = Return(Fixed(50), Fixed(25), Two)

C3_Witness ==
    /\ Img = Image(200, 100) /\ last_call.scale = 2
    /\ Sty = [width |-> 50, height |-> NONE, flex |-> TRUE]
    /\ Res = Return(Fixed(100), at_least(0), Two)

\* C4: with an image present and neither style dimension set, the aspect
\* ratio is image.width / image.height and the hints are
\* (image.width * scale, image.height * scale) as fixed integers when flex
\* is false and (at_least(0), at_least(0)) when flex is true.
C4_Intrinsic ==
    (ValidImage /\ NeitherSet) =>
        Res = Return(
                IF Sty.flex THEN at_least(0) ELSE Fixed(Scaled(Img.width)),
                IF Sty.flex THEN at_least(0) ELSE Fixed(Scaled(Img.height)),
                int_truediv(Img.width, Img.height))

C4_Witness ==
    /\ Img = Image(200, 100) /\ last_call.scale = 1
    /\ Sty = [width |-> NONE, height |-> NONE, flex |-> TRUE]
    /\ Res = Return(at_least(0), at_least(0), Two)

\* |height_out * image.width - width_out * image.height| of a returned pair
\* of fixed hints
RatioGap ==
    Abs(Res.height.value * Img.width - Res.width.value * Img.height)

\* C5 as stated: for every image and every style with only the width set
\* (flex false, so that height_out is a number),
\* |height_out * image.width - width_out * image.height| <= 1.
C5_Original ==
    (ValidImage /\ WidthOnly /\ ~Sty.flex) =>
        Res.kind = "return" /\ RatioGap <= 1

\* C5 amended: for every image and every style with only the width set and
\* flex false, |height_out * image.width - width_out * image.height| <=
\* image.width: height_out is within one unit of the proportional height
\* width_out * image.height / image.width.
C5_Amended ==
    (ValidImage /\ WidthOnly /\ ~Sty.flex) =>
        Res.kind = "return" /\ RatioGap <= Img.width

C5_Witness ==
    /\ Img = Image(9, 7) /\ last_call.scale = 1
    /\ Sty = [width |-> 9, height |-> NONE, flex |-> FALSE]
    /\ Res.kind = "return"
    /\ Res.height = Fixed(6)
    /\ RatioGap = 9

\* The call raised
Raised == Res.kind = "raise"

\* C6 as stated: every call with an image whose height is <= 0 raises, for
\* every style and scale; no call with an image of positive width and
\* height, or with image = None, raises.
C6_Original ==
    /\ (Img # None /\ Img.height <= 0) => Raised
    /\ (ValidImage \/ Img = None) => ~Raised

\* C6 amended: a call raises (ZeroDivisionError, no triple returned) exactly
\* when the image is present, the style does not set both width and height,
\* and either image.height = 0 or image.width = 0 with only style.width set
\* (the division by the ratio 0.0).  With both style dimensions set, or with
\* a negative height, nothing is raised; no call with an image of positive
\* width and height, or with image = None, raises.
C6_Amended ==
    /\ Raised <=>
          /\ Img # None
          /\ ~BothSet
          /\ Img.height = 0 \/ (Img.width = 0 /\ WidthOnly)
    /\ Raised => Res = Raise("ZeroDivisionError")
    /\ (ValidImage \/ Img = None) => ~Raised

C6_Witness ==
    /\ Img = Image(9, 0) /\ Sty.flex /\ HeightOnly
    /\ Res = Raise("ZeroDivisionError")

\* C7: for two calls with the same valid image and the same style with
\* flex false and no explicit dimension, the call with the larger scale has
\* a width and a height at least as large.
C7_Monotone ==
    (prev_call # None /\ ValidImage /\ NeitherSet /\ ~Sty.flex) =>
        /\ Res.kind = "return" /\ prev_call.result.kind = "return"
        /\ prev_call.scale < last_call.scale =>
              /\ Res.width.value >= prev_call.result.width.value
              /\ Res.height.value >= prev_call.result.height.value
        /\ prev_call.scale > last_call.scale =>
              /\ Res.width.value =< prev_call.result.width.value
              /\ Res.height.value =< prev_call.result.height.value

C7_Witness ==
    /\ prev_call # None /\ Img = Image(9, 7) /\ NeitherSet /\ ~Sty.flex
    /\ prev_call.scale = 1 /\ last_call.scale = 2
    /\ prev_call.result.width = Fixed(9) /\ Res.width = Fixed(18)
    /\ prev_call.result.height = Fixed(7) /\ Res.height = Fixed(14)

C9_AlwaysEnabled ==
    /\ [](enabled_read \in {"unread", "True"})
    /\ [](view.impl_enabled /\ view.impl_image = view.image)
    /\ [][(SetEnabled \/ Focus) => view' = view]_vars

C9_Witness ==
    /\ enabled_read = "True"
    /\ view.image = Image(200, 100)

====
